---- MODULE Spec2Model ----
(***************************************************************************)
(* vigil: a terminal dashboard for the state of a git working directory.   *)
(*                                                                         *)
(* The repository holds two generations of the program:                    *)
(*   - the watcher generation (main.go + watcher.go): an fsnotify-backed   *)
(*     recursive Watcher feeds fileChangeMsg into the bubbletea loop;       *)
(*   - the polling generation: a 3 s tick and a 2 min upstream fetch.       *)
(* SpecW is the state machine of the first, SpecT of the second.           *)
(***************************************************************************)
EXTENDS Integers, Sequences, FiniteSets, TLC

(***************************************************************************)
(* Bounds of the model.                                                    *)
(***************************************************************************)
MaxQueue == 2      \* events buffered between the kernel and Watcher.run
MaxFsOps == 3      \* filesystem operations and errors the environment performs
MaxMsgs == 1       \* user-input messages waiting in the bubbletea queue

(***************************************************************************)
(* Text.  Strings whose characters the code inspects are sequences of      *)
(* one-character strings.                                                  *)
(***************************************************************************)
DotGit == <<".", "g", "i", "t">>
DotGithub == DotGit \o <<"h", "u", "b">>
DotGitignore == DotGit \o <<"i", "g", "n", "o", "r", "e">>
DirA == <<"a">>
FileF == <<"f">>
RootDir == <<"/", "r">>

\* strings.Contains(s, sub)
Contains(s, sub) ==
    \E i \in 0..(Len(s) - Len(sub)) : SubSeq(s, i + 1, i + Len(sub)) = sub

(***************************************************************************)
(* git.go.  The outcome of one git command is a record: ok (exit status 0) *)
(* and out (its standard output).  A repository state r holds the outcome  *)
(* each command would have.                                                *)
(***************************************************************************)
Failed == [ok |-> FALSE, out |-> <<>>]
Output(text) == [ok |-> TRUE, out |-> text]

IsSpace(c) == c \in {" ", "\n", "\t", "\r"}

RECURSIVE TrimLeft(_)
TrimLeft(s) ==
    IF s # <<>> /\ IsSpace(Head(s)) THEN TrimLeft(Tail(s)) ELSE s

RECURSIVE TrimRight(_)
TrimRight(s) ==
    IF s # <<>> /\ IsSpace(s[Len(s)]) THEN TrimRight(SubSeq(s, 1, Len(s) - 1)) ELSE s

\* strings.TrimSpace
TrimSpace(s) == TrimRight(TrimLeft(s))

\* the position of the first c in s, 0 if there is none
IndexOf(s, c) ==
    IF \E i \in 1..Len(s) : s[i] = c
    THEN CHOOSE i \in 1..Len(s) : s[i] = c /\ \A j \in 1..(i - 1) : s[j] # c
    ELSE 0

RECURSIVE Split(_, _)
\* strings.Split(s, sep) for a one-character separator
Split(s, sep) ==
    IF IndexOf(s, sep) = 0 THEN <<s>>
    ELSE <<SubSeq(s, 1, IndexOf(s, sep) - 1)>>
           \o Split(SubSeq(s, IndexOf(s, sep) + 1, Len(s)), sep)

\* strings.SplitN(s, sep, 2)
SplitN2(s, sep) ==
    IF IndexOf(s, sep) = 0 THEN <<s>>
    ELSE <<SubSeq(s, 1, IndexOf(s, sep) - 1), SubSeq(s, IndexOf(s, sep) + 1, Len(s))>>

RECURSIVE Fields(_)
\* strings.Fields: the maximal runs of non-space characters
Fields(s) ==
    LET t == TrimLeft(s)
        n == IF \E i \in 1..Len(t) : IsSpace(t[i])
             THEN (CHOOSE i \in 1..Len(t) : IsSpace(t[i]) /\ \A j \in 1..(i - 1) : ~IsSpace(t[j])) - 1
             ELSE Len(t)
    IN IF t = <<>> THEN <<>>
       ELSE <<SubSeq(t, 1, n)>> \o Fields(SubSeq(t, n + 1, Len(t)))

DigitChars == <<"0", "1", "2", "3", "4", "5", "6", "7", "8", "9">>
IsDigit(c) == \E d \in 1..10 : DigitChars[d] = c
DigitValue(c) == (CHOOSE d \in 1..10 : DigitChars[d] = c) - 1

RECURSIVE ScanDigits(_, _)
ScanDigits(s, acc) ==
    IF s # <<>> /\ IsDigit(Head(s))
    THEN ScanDigits(Tail(s), acc * 10 + DigitValue(Head(s)))
    ELSE acc

\* fmt.Sscanf(s, "%d", &n) into a variable that holds 0: the leading digits
ScanInt(s) == ScanDigits(s, 0)

NoCommitsSuffix == <<" ", "(", "n", "o", " ", "c", "o", "m", "m", "i", "t", "s", ")">>
DetachedPrefix == <<"(", "d", "e", "t", "a", "c", "h", "e", "d", ")", " ">>
Unknown == <<"u", "n", "k", "n", "o", "w", "n">>
Main == <<"m", "a", "i", "n">>
Master == <<"m", "a", "s", "t", "e", "r">>

\* GetCurrentBranch of the watcher generation
GetCurrentBranch0(r) ==
    IF ~r.showCurrent.ok
    THEN IF ~r.shortHead.ok THEN Unknown
         ELSE DetachedPrefix \o TrimSpace(r.shortHead.out)
    ELSE IF TrimSpace(r.showCurrent.out) = <<>> THEN Unknown
         ELSE TrimSpace(r.showCurrent.out)

\* a GetCurrentBranch that asks symbolic-ref before branch --show-current
GetCurrentBranch_SymbolicRefFirst(r) ==
    IF r.symbolicRef.ok /\ TrimSpace(r.symbolicRef.out) # <<>>
    THEN TrimSpace(r.symbolicRef.out) \o NoCommitsSuffix
    ELSE IF r.showCurrent.ok /\ TrimSpace(r.showCurrent.out) # <<>>
    THEN TrimSpace(r.showCurrent.out)
    ELSE IF r.shortHead.ok
    THEN DetachedPrefix \o TrimSpace(r.shortHead.out)
    ELSE Unknown

\* GetCurrentBranch
GetCurrentBranch(r) ==
    IF r.showCurrent.ok /\ TrimSpace(r.showCurrent.out) # <<>>
    THEN TrimSpace(r.showCurrent.out)
    ELSE IF r.symbolicRef.ok /\ TrimSpace(r.symbolicRef.out) # <<>>
    THEN TrimSpace(r.symbolicRef.out) \o NoCommitsSuffix
    ELSE IF r.shortHead.ok
    THEN DetachedPrefix \o TrimSpace(r.shortHead.out)
    ELSE Unknown

\* strings.Join(parts, ", ")
JoinParts(parts) ==
    IF Len(parts) = 1 THEN parts[1] ELSE parts[1] \o ", " \o parts[2]

\* a statusLabel that describes the staged column only
statusLabel_StagedOnly(staged, unstaged) ==
    LET stagedPart ==
            CASE staged = "M" -> <<"modified (staged)">>
              [] staged = "A" -> <<"added (staged)">>
              [] staged = "D" -> <<"deleted (staged)">>
              [] staged = "R" -> <<"renamed (staged)">>
              [] staged = "C" -> <<"copied (staged)">>
              [] OTHER -> <<>>
    IN IF staged = "?" /\ unstaged = "?" THEN "untracked"
       ELSE IF staged = "!" /\ unstaged = "!" THEN "ignored"
       ELSE IF Len(stagedPart) = 0 THEN "changed"
       ELSE stagedPart[1]

statusLabel(staged, unstaged) ==
    LET stagedPart ==
            CASE staged = "M" -> <<"modified (staged)">>
              [] staged = "A" -> <<"added (staged)">>
              [] staged = "D" -> <<"deleted (staged)">>
              [] staged = "R" -> <<"renamed (staged)">>
              [] staged = "C" -> <<"copied (staged)">>
              [] OTHER -> <<>>
        unstagedPart ==
            CASE unstaged = "M" -> <<"modified">>
              [] unstaged = "D" -> <<"deleted">>
              [] OTHER -> <<>>
        parts == stagedPart \o unstagedPart
    IN IF staged = "?" /\ unstaged = "?" THEN "untracked"
       ELSE IF staged = "!" /\ unstaged = "!" THEN "ignored"
       ELSE IF Len(parts) = 0 THEN "changed"
       ELSE JoinParts(parts)

\* the lines of at least n characters, in order
RECURSIVE LinesOfWidth(_, _)
LinesOfWidth(lines, n) ==
    IF lines = <<>> THEN <<>>
    ELSE (IF Len(Head(lines)) < n THEN <<>> ELSE <<Head(lines)>>)
           \o LinesOfWidth(Tail(lines), n)

\* GetGitStatus of the watcher generation
GetGitStatus0(r) ==
    IF ~r.status.ok THEN <<>>
    ELSE LET lines == LinesOfWidth(Split(r.status.out, "\n"), 3)
         IN [i \in 1..Len(lines) |->
               [Status |-> TrimSpace(SubSeq(lines[i], 1, 2)),
                File |-> SubSeq(lines[i], 4, Len(lines[i]))]]

\* a GetGitStatus that takes lines of three characters too
GetGitStatus_Width3(r) ==
    IF ~r.status.ok THEN <<>>
    ELSE LET lines == LinesOfWidth(Split(r.status.out, "\n"), 3)
         IN [i \in 1..Len(lines) |->
               [Staged |-> lines[i][1],
                Unstaged |-> lines[i][2],
                Label |-> statusLabel(lines[i][1], lines[i][2]),
                File |-> SubSeq(lines[i], 4, Len(lines[i]))]]

\* GetGitStatus
GetGitStatus(r) ==
    IF ~r.status.ok THEN <<>>
    ELSE LET lines == LinesOfWidth(Split(r.status.out, "\n"), 4)
         IN [i \in 1..Len(lines) |->
               [Staged |-> lines[i][1],
                Unstaged |-> lines[i][2],
                Label |-> statusLabel(lines[i][1], lines[i][2]),
                File |-> SubSeq(lines[i], 4, Len(lines[i]))]]

\* a GetCommitsAheadBehind that reports a failed rev-list as zero counts
GetCommitsAheadBehind_ZeroOnFailure(r) ==
    LET parts == Fields(TrimSpace(r.revList.out))
    IN IF ~r.revList.ok
       THEN [ahead |-> 0, behind |-> 0, err |-> "nil"]
       ELSE IF Len(parts) # 2
       THEN [ahead |-> 0, behind |-> 0, err |-> "unexpected output"]
       ELSE [ahead |-> ScanInt(parts[1]), behind |-> ScanInt(parts[2]), err |-> "nil"]

\* GetCommitsAheadBehind: the fetch is run for its effect on the remote refs
\* only, its outcome is ignored
GetCommitsAheadBehind(r) ==
    LET parts == Fields(TrimSpace(r.revList.out))
    IN IF ~r.revList.ok
       THEN [ahead |-> 0, behind |-> 0, err |-> "no upstream"]
       ELSE IF Len(parts) # 2
       THEN [ahead |-> 0, behind |-> 0, err |-> "unexpected output"]
       ELSE [ahead |-> ScanInt(parts[1]), behind |-> ScanInt(parts[2]), err |-> "nil"]

\* GetDefaultBranch: the name returned when the cache holds the value cache
\* a GetDefaultBranch that asks git on every call
GetDefaultBranch_NoCache(r, cache) ==
    IF r.originHead.ok
    THEN LET parts == Split(TrimSpace(r.originHead.out), "/") IN parts[Len(parts)]
    ELSE IF r.hasMain THEN Main ELSE Master

GetDefaultBranch(r, cache) ==
    IF cache # <<>> THEN cache
    ELSE IF r.originHead.ok
    THEN LET parts == Split(TrimSpace(r.originHead.out), "/") IN parts[Len(parts)]
    ELSE IF r.hasMain THEN Main ELSE Master

\* git rev-parse <name>
RevParse(r, name) == IF name \in DOMAIN r.revs THEN r.revs[name] ELSE Failed
\* git merge-base <name> HEAD
MergeBase(r, name) == IF name \in DOMAIN r.mergeBase THEN r.mergeBase[name] ELSE Failed

RECURSIVE NameStatusEntries(_)
NameStatusEntries(lines) ==
    IF lines = <<>> THEN <<>>
    ELSE LET parts == SplitN2(Head(lines), "\t")
         IN (IF Head(lines) = <<>> \/ Len(parts) # 2 THEN <<>>
             ELSE <<[Status |-> parts[1], File |-> parts[2]]>>)
              \o NameStatusEntries(Tail(lines))

\* a GetBranchDiffFiles that does not compare HEAD with the default branch
GetBranchDiffFiles_NoSameCommitTest(r, defaultBranch) ==
    IF ~r.headRev.ok THEN <<>>
    ELSE IF ~RevParse(r, defaultBranch).ok THEN <<>>
    ELSE IF ~MergeBase(r, defaultBranch).ok THEN <<>>
    ELSE IF ~r.diff.ok THEN <<>>
    ELSE NameStatusEntries(Split(TrimSpace(r.diff.out), "\n"))

\* GetBranchDiffFiles, given the name GetDefaultBranch returned
GetBranchDiffFiles(r, defaultBranch) ==
    IF ~r.headRev.ok THEN <<>>
    ELSE IF ~RevParse(r, defaultBranch).ok THEN <<>>
    ELSE IF TrimSpace(r.headRev.out) = TrimSpace(RevParse(r, defaultBranch).out) THEN <<>>
    ELSE IF ~MergeBase(r, defaultBranch).ok THEN <<>>
    ELSE IF ~r.diff.ok THEN <<>>
    ELSE NameStatusEntries(Split(TrimSpace(r.diff.out), "\n"))

(***************************************************************************)
(* The repository states the environment moves between.                    *)
(***************************************************************************)
\* on main, clean, in sync with origin/main
RepoClean ==
    [showCurrent |-> Output(<<"m", "a", "i", "n", "\n">>),
     symbolicRef |-> Output(<<"m", "a", "i", "n", "\n">>),
     shortHead |-> Output(<<"h", "1", "\n">>),
     status |-> Output(<<>>),
     revList |-> Output(<<"0", "\t", "0", "\n">>),
     originHead |-> Output(<<"r", "e", "f", "s", "/", "r", "e", "m", "o", "t", "e", "s", "/",
                             "o", "r", "i", "g", "i", "n", "/", "m", "a", "i", "n", "\n">>),
     hasMain |-> TRUE,
     headRev |-> Output(<<"h", "1", "\n">>),
     revs |-> (Main :> Output(<<"h", "1", "\n">>)),
     mergeBase |-> (Main :> Output(<<"h", "1", "\n">>)),
     diff |-> Output(<<>>)]

\* on branch dev, two commits ahead of and one behind its upstream, with a
\* staged, an untracked and a deleted file
RepoDev ==
    [showCurrent |-> Output(<<"d", "e", "v", "\n">>),
     symbolicRef |-> Output(<<"d", "e", "v", "\n">>),
     shortHead |-> Output(<<"h", "2", "\n">>),
     status |-> Output(<<"M", " ", " ", "a", ".", "t", "x", "t", "\n",
                         "?", "?", " ", "b", ".", "t", "x", "t", "\n",
                         " ", "D", " ", "c", ".", "t", "x", "t", "\n">>),
     revList |-> Output(<<"2", "\t", "1", "\n">>),
     originHead |-> Failed,
     hasMain |-> TRUE,
     headRev |-> Output(<<"h", "2", "\n">>),
     revs |-> (Main :> Output(<<"h", "1", "\n">>)),
     mergeBase |-> (Main :> Output(<<"h", "1", "\n">>)),
     diff |-> Output(<<"A", "\t", "n", ".", "t", "x", "t", "\n",
                       "M", "\t", "a", ".", "t", "x", "t", "\n">>)]

\* detached HEAD at h2, no upstream, and git status failing
RepoDetached ==
    [showCurrent |-> Output(<<"\n">>),
     symbolicRef |-> Failed,
     shortHead |-> Output(<<"h", "2", "\n">>),
     status |-> Failed,
     revList |-> Failed,
     originHead |-> Failed,
     hasMain |-> TRUE,
     headRev |-> Output(<<"h", "2", "\n">>),
     revs |-> (Main :> Output(<<"h", "1", "\n">>)),
     mergeBase |-> (Main :> Failed),
     diff |-> Failed]

Repos == {RepoClean, RepoDev, RepoDetached}

\* the values cachedDefaultBranch can hold
Caches == {<<>>, Main, Master} \cup {GetDefaultBranch(r, <<>>) : r \in Repos}

\* what the extraction calls of the watcher generation return in each state
Extracted0 ==
    [r \in Repos |-> [branch |-> GetCurrentBranch0(r), changes |-> GetGitStatus0(r)]]

\* what the extraction calls return in each repository state, GetBranchDiffFiles
\* (which calls GetDefaultBranch first) for each value of the cache
Extracted ==
    [r \in Repos |->
       [branch |-> GetCurrentBranch(r),
        changes |-> GetGitStatus(r),
        upstream |-> GetCommitsAheadBehind(r),
        defaultBranch |-> [c \in Caches |-> GetDefaultBranch(r, c)],
        branchFiles |-> [c \in Caches |-> GetBranchDiffFiles(r, GetDefaultBranch(r, c))]]]

(***************************************************************************)
(* The directory tree.  A path is the sequence of names below the root.    *)
(***************************************************************************)
Root == <<>>
Dirs == {Root, <<DotGit>>, <<DotGithub>>, <<DirA>>}
Files == {<<DotGitignore>>, <<DirA, FileF>>}
Paths == Dirs \cup Files

IsDir(p) == p \in Dirs
Parent(p) == SubSeq(p, 1, Len(p) - 1)

RECURSIVE PathString(_)
\* filepath.Join(dir, names...): the name fsnotify and filepath.Walk report
PathString(p) ==
    IF p = <<>> THEN RootDir
    ELSE PathString(Parent(p)) \o <<"/">> \o p[Len(p)]

Ops == {"Create", "Write", "Remove"}
NoEvent == [path |-> Root, op |-> "None"]

InitialTrees == {{Root, <<DotGit>>, <<DotGithub>>}}

Sizes == {[Width |-> 80, Height |-> 24]}

VARIABLES
    exists,         \* paths that exist on disk
    watched,        \* directories registered with the fsnotify watcher
    watcherEvents,  \* w.watcher.Events: events fsnotify has not handed over yet
    watcherErrors,  \* w.watcher.Errors: errors fsnotify has not handed over yet
    closed,         \* w.watcher.Close() has been called
    runPc,          \* position of the goroutine Watcher.run
    event,          \* Watcher.run's local variable event
    cmdWaiting,     \* watchForChanges commands blocked in <-w.Events
    missed,         \* paths changed in a directory nobody watched
    dropped,        \* paths of the events Watcher.run discarded
    forwarded,      \* events sent on w.Events
    extractions,    \* extraction cycles run by the fileChangeMsg handler
    arrivedLate,    \* an event arrived after the first extraction cycle
    nOps,           \* filesystem operations and errors so far
    msgs,           \* bubbletea's message queue
    progPc,         \* "running", "quit" (tea.Quit returned), "exited"; while
                    \* initialModel runs, the call it makes next
    m,              \* the model value bubbletea holds between two Updates
    repo,           \* the state of the git repository
    cachedDefaultBranch,  \* the package variable of git.go
    tickTimers,     \* pending tea.Tick timers of tick()
    fetchTimers,    \* pending tea.Tick timers of scheduleFetch()
    fetchRunning,   \* fetchUpstream calls in progress
    lastCmd         \* the commands the last Update returned

watchVars == <<exists, watched, watcherEvents, watcherErrors, closed, runPc,
               event, cmdWaiting, missed, dropped, forwarded, extractions,
               arrivedLate, nOps>>
pollVars == <<cachedDefaultBranch, tickTimers, fetchTimers, fetchRunning>>

vars == <<watchVars, msgs, progPc, m, repo, pollVars, lastCmd>>

(***************************************************************************)
(* watcher.go                                                              *)
(***************************************************************************)
\* the test NewWatcher's walk applies to a directory: "Skip .git directory"
SkipDir(path) == Contains(path, DotGit)

\* a filter that matches only names below a .git directory
IsFiltered_BelowOnly(name) == Contains(name, DotGit \o <<"/">>)

\* the test Watcher.run applies to an event: "Filter out .git directory changes"
IsFiltered(name) == Contains(name, DotGit)

\* filepath.Walk with SkipDir: the directories NewWatcher registers
WalkAdd(tree) ==
    {d \in tree : IsDir(d) /\ \A k \in 0..Len(d) : ~SkipDir(PathString(SubSeq(d, 1, k)))}

\* initialModel of the watcher generation
initialModel0(r) ==
    [branch |-> Extracted0[r].branch, changes |-> Extracted0[r].changes,
     ready |-> FALSE, width |-> 0, height |-> 0]

\* the state after NewWatcher returned and the program started: Init has
\* issued one watchForChanges command.  The repository stays as it is here;
\* what changes is the working tree.
InitW ==
    /\ exists \in InitialTrees
    /\ watched = WalkAdd(exists)
    /\ watcherEvents = <<>>
    /\ watcherErrors = 0
    /\ closed = FALSE
    /\ runPc = "select"
    /\ event = NoEvent
    /\ cmdWaiting = 1
    /\ msgs = <<>>
    /\ progPc = "running"
    /\ missed = {}
    /\ dropped = {}
    /\ forwarded = 0
    /\ extractions = 0
    /\ arrivedLate = FALSE
    /\ nOps = 0
    /\ repo = RepoDev
    /\ m = initialModel0(repo)
    /\ lastCmd = {}
    /\ cachedDefaultBranch = <<>>
    /\ tickTimers = 0
    /\ fetchTimers = 0
    /\ fetchRunning = 0

(***************************************************************************)
(* The environment: the filesystem and the kernel's notification queue.    *)
(***************************************************************************)
HasChild(p) == \E q \in exists : q # Root /\ Parent(q) = p

CanDo(p, op) ==
    /\ p # Root
    /\ op = "Create" => p \notin exists /\ Parent(p) \in exists
    /\ op = "Remove" => p \in exists /\ ~HasChild(p)
    /\ op = "Write" => p \in exists /\ ~IsDir(p)

\* an operation on p; the kernel reports it iff the directory holding p is
\* registered, and forgets the watch of a directory that is removed
FsOp(p, op) ==
    /\ ~closed
    /\ nOps < MaxFsOps
    /\ Len(watcherEvents) < MaxQueue
    /\ CanDo(p, op)
    /\ nOps' = nOps + 1
    /\ exists' = IF op = "Create" THEN exists \cup {p}
                 ELSE IF op = "Remove" THEN exists \ {p} ELSE exists
    /\ watched' = IF op = "Remove" THEN watched \ {p} ELSE watched
    /\ IF Parent(p) \in watched
       THEN /\ watcherEvents' = Append(watcherEvents, [path |-> p, op |-> op])
            /\ arrivedLate' = (arrivedLate \/ extractions >= 1)
            /\ UNCHANGED missed
       ELSE /\ missed' = missed \cup {p}
            /\ UNCHANGED <<watcherEvents, arrivedLate>>
    /\ UNCHANGED <<watcherErrors, closed, runPc, event, cmdWaiting, dropped,
                   forwarded, extractions>>
    /\ UNCHANGED <<msgs, progPc, m, repo, pollVars, lastCmd>>

\* the notification mechanism reports an error (queue overflow, read error)
FsError ==
    /\ ~closed
    /\ nOps < MaxFsOps
    /\ watcherErrors = 0
    /\ nOps' = nOps + 1
    /\ watcherErrors' = 1
    /\ UNCHANGED <<exists, watched, watcherEvents, closed, runPc, event,
                   cmdWaiting, missed, dropped, forwarded, extractions,
                   arrivedLate>>
    /\ UNCHANGED <<msgs, progPc, m, repo, pollVars, lastCmd>>

(***************************************************************************)
(* Watcher.run, one action per step of the loop.                           *)
(***************************************************************************)
\* case event, ok := <-w.watcher.Events, with the filter that follows it
run_recvEvent ==
    /\ runPc = "select"
    /\ watcherEvents # <<>>
    /\ watcherEvents' = Tail(watcherEvents)
    /\ IF IsFiltered(PathString(Head(watcherEvents).path))
       THEN /\ dropped' = dropped \cup {Head(watcherEvents).path}
            /\ UNCHANGED <<runPc, event>>
       ELSE /\ runPc' = "send"
            /\ event' = Head(watcherEvents)
            /\ UNCHANGED dropped
    /\ UNCHANGED <<exists, watched, watcherErrors, closed, cmdWaiting, missed,
                   forwarded, extractions, arrivedLate, nOps>>
    /\ UNCHANGED <<msgs, progPc, m, repo, pollVars, lastCmd>>

\* w.Events <- event, received by a waiting watchForChanges command, which
\* returns fileChangeMsg{} to the bubbletea queue
run_sendEvent ==
    /\ runPc = "send"
    /\ cmdWaiting > 0
    /\ cmdWaiting' = cmdWaiting - 1
    /\ msgs' = Append(msgs, [type |-> "fileChangeMsg"])
    /\ forwarded' = forwarded + 1
    /\ IF event.op = "Create"
       THEN runPc' = "stat" /\ UNCHANGED event
       ELSE runPc' = "select" /\ event' = NoEvent
    /\ UNCHANGED <<exists, watched, watcherEvents, watcherErrors, closed,
                   missed, dropped, extractions, arrivedLate, nOps>>
    /\ UNCHANGED <<progPc, m, repo, pollVars, lastCmd>>

\* os.Stat(event.Name) and w.watcher.Add(event.Name) after the send
run_addDir ==
    /\ runPc = "stat"
    /\ runPc' = "select"
    /\ event' = NoEvent
    /\ watched' = IF event.path \in exists /\ IsDir(event.path) /\ ~closed
                  THEN watched \cup {event.path}
                  ELSE watched
    /\ UNCHANGED <<exists, watcherEvents, watcherErrors, closed, cmdWaiting,
                   missed, dropped, forwarded, extractions, arrivedLate, nOps>>
    /\ UNCHANGED <<msgs, progPc, m, repo, pollVars, lastCmd>>

\* case err, ok := <-w.watcher.Errors; the send w.Errors <- err that follows
\* has no receiver anywhere in the program, so no action leaves "sendErr"
run_recvError ==
    /\ runPc = "select"
    /\ watcherErrors > 0
    /\ watcherErrors' = watcherErrors - 1
    /\ runPc' = "sendErr"
    /\ UNCHANGED <<exists, watched, watcherEvents, closed, event, cmdWaiting,
                   missed, dropped, forwarded, extractions, arrivedLate, nOps>>
    /\ UNCHANGED <<msgs, progPc, m, repo, pollVars, lastCmd>>

\* if !ok { return }: fsnotify closed its channels
run_return ==
    /\ runPc = "select"
    /\ closed
    /\ runPc' = "done"
    /\ UNCHANGED <<exists, watched, watcherEvents, watcherErrors, closed,
                   event, cmdWaiting, missed, dropped, forwarded, extractions,
                   arrivedLate, nOps>>
    /\ UNCHANGED <<msgs, progPc, m, repo, pollVars, lastCmd>>

(***************************************************************************)
(* main.go of the watcher generation: the bubbletea program.               *)
(***************************************************************************)
QuitKeys == {"q", "ctrl+c", "esc"}
Keys0 == QuitKeys \cup {"j"}

KeyMsg(k) == [type |-> "KeyMsg", key |-> k]
WindowSizeMsg(size) == [type |-> "WindowSizeMsg", Width |-> size.Width, Height |-> size.Height]

IsQuit(msg) == msg.type = "KeyMsg" /\ msg.key \in QuitKeys

\* the terminal delivers a key press or a window size
UserInput(msg) ==
    /\ progPc = "running"
    /\ Cardinality({i \in 1..Len(msgs) : msgs[i].type \in {"KeyMsg", "WindowSizeMsg"}}) < MaxMsgs
    /\ msgs' = Append(msgs, msg)
    /\ UNCHANGED <<watchVars, progPc, m, repo, pollVars, lastCmd>>

\* a Close that releases nothing
Close_Noop == UNCHANGED <<closed, watched>>

\* Watcher.Close: fsnotify drops its watches and closes its channels
Close == closed' = TRUE /\ watched' = {}

\* the case tea.WindowSizeMsg of Update
Resized(model, msg) ==
    [model EXCEPT !.width = msg.Width, !.height = msg.Height, !.ready = TRUE]

\* an Update that also re-extracts when the window is resized
Extracts0_OnResize(msg) == msg.type \in {"fileChangeMsg", "WindowSizeMsg"}

\* the messages for which Update of the watcher generation re-extracts
Extracts0(msg) == msg.type = "fileChangeMsg"

\* an Update that issues watchForChanges after every message
Cmds0_RearmAlways(msg) == IF IsQuit(msg) THEN {"Quit"} ELSE {"watchForChanges"}

\* the commands Update of the watcher generation returns
Cmds0(msg) ==
    IF IsQuit(msg) THEN {"Quit"}
    ELSE IF msg.type = "fileChangeMsg" THEN {"watchForChanges"}
    ELSE {}

\* model.Update of the watcher generation, on the head of the queue
Update0 ==
    /\ progPc = "running"
    /\ msgs # <<>>
    /\ msgs' = Tail(msgs)
    /\ LET msg == Head(msgs) IN
       /\ IF IsQuit(msg)
          THEN Close /\ progPc' = "quit" /\ UNCHANGED <<m, extractions>>
          ELSE /\ UNCHANGED <<closed, watched, progPc>>
               /\ extractions' = extractions + (IF Extracts0(msg) THEN 1 ELSE 0)
               /\ m' = LET sized == IF msg.type = "WindowSizeMsg" THEN Resized(m, msg) ELSE m
                       IN IF Extracts0(msg)
                          THEN [sized EXCEPT !.branch = Extracted0[repo].branch,
                                             !.changes = Extracted0[repo].changes]
                          ELSE sized
       /\ cmdWaiting' = cmdWaiting + (IF "watchForChanges" \in Cmds0(msg) THEN 1 ELSE 0)
    /\ UNCHANGED <<exists, watcherEvents, watcherErrors, runPc, event,
                   missed, dropped, forwarded, arrivedLate, nOps>>
    /\ UNCHANGED <<repo, pollVars, lastCmd>>

\* p.Run returned after tea.Quit; main's deferred watcher.Close() runs
main_exit ==
    /\ progPc = "quit"
    /\ progPc' = "exited"
    /\ Close
    /\ UNCHANGED <<exists, watcherEvents, watcherErrors, runPc, event,
                   cmdWaiting, missed, dropped, forwarded, extractions,
                   arrivedLate, nOps>>
    /\ UNCHANGED <<msgs, m, repo, pollVars, lastCmd>>

NextW ==
    \/ \E p \in Paths, op \in Ops : FsOp(p, op)
    \/ FsError
    \/ run_recvEvent
    \/ run_sendEvent
    \/ run_addDir
    \/ run_recvError
    \/ run_return
    \/ \E k \in Keys0 : UserInput(KeyMsg(k))
    \/ \E size \in Sizes : UserInput(WindowSizeMsg(size))
    \/ Update0
    \/ main_exit

SpecW == InitW /\ [][NextW]_vars

(***************************************************************************)
(* main.go of the polling generation: a 3 s tick re-extracts the local     *)
(* state, a 2 min timer re-runs the upstream fetch.                        *)
(***************************************************************************)
Keys == QuitKeys \cup {"r", "j"}

tickMsg == [type |-> "tickMsg"]
fetchTickMsg(res) ==
    [type |-> "fetchTickMsg", ahead |-> res.ahead, behind |-> res.behind, err |-> res.err]

\* initialModel: the extraction calls and the zero values of the other fields
initialModel(r, cache) ==
    [branch |-> Extracted[r].branch,
     changes |-> Extracted[r].changes,
     branchFiles |-> Extracted[r].branchFiles[cache],
     ahead |-> 0, behind |-> 0, upstreamErr |-> "nil",
     ready |-> FALSE, width |-> 0, height |-> 0]

\* the state after main built the model and model.Init returned
\* tea.Batch(tick(), tea.EnterAltScreen, fetchUpstream)
InitT ==
    /\ repo \in Repos
    /\ m = initialModel(repo, <<>>)
    /\ cachedDefaultBranch = Extracted[repo].defaultBranch[<<>>]
    /\ msgs = <<>>
    /\ progPc = "running"
    /\ tickTimers = 1
    /\ fetchTimers = 0
    /\ fetchRunning = 1
    /\ lastCmd = {"tick", "EnterAltScreen", "fetchUpstream"}
    /\ exists = {Root}
    /\ watched = {}
    /\ watcherEvents = <<>>
    /\ watcherErrors = 0
    /\ closed = FALSE
    /\ runPc = "done"
    /\ event = NoEvent
    /\ cmdWaiting = 0
    /\ missed = {}
    /\ dropped = {}
    /\ forwarded = 0
    /\ extractions = 0
    /\ arrivedLate = FALSE
    /\ nOps = 0

\* the repository changes: a commit, a checkout, an edit, a fetch
RepoChange ==
    /\ repo' \in Repos \ {repo}
    /\ UNCHANGED <<watchVars, msgs, progPc, m, pollVars, lastCmd>>

\* the timer of tick() expires and delivers tickMsg{}
tick ==
    /\ progPc = "running"
    /\ tickTimers > 0
    /\ tickTimers' = tickTimers - 1
    /\ msgs' = Append(msgs, tickMsg)
    /\ UNCHANGED <<watchVars, progPc, m, repo, cachedDefaultBranch,
                   fetchTimers, fetchRunning, lastCmd>>

\* the timer of scheduleFetch() expires and its callback calls fetchUpstream
scheduleFetch ==
    /\ progPc = "running"
    /\ fetchTimers > 0
    /\ fetchTimers' = fetchTimers - 1
    /\ fetchRunning' = fetchRunning + 1
    /\ UNCHANGED <<watchVars, msgs, progPc, m, repo, cachedDefaultBranch,
                   tickTimers, lastCmd>>

\* fetchUpstream returns: GetCommitsAheadBehind has run in the command's
\* goroutine and its result is delivered as a fetchTickMsg
fetchUpstream ==
    /\ progPc = "running"
    /\ fetchRunning > 0
    /\ fetchRunning' = fetchRunning - 1
    /\ msgs' = Append(msgs, fetchTickMsg(Extracted[repo].upstream))
    /\ UNCHANGED <<watchVars, progPc, m, repo, cachedDefaultBranch,
                   tickTimers, fetchTimers, lastCmd>>

\* the messages for which Update re-extracts branch, status and branch files
Extracts(msg) ==
    \/ msg.type = "tickMsg"
    \/ msg.type = "KeyMsg" /\ msg.key = "r"

\* an Update whose tick case does not start the next tick timer
Cmds_TickNotRearmed(msg) ==
    IF IsQuit(msg) THEN {"Quit"}
    ELSE IF msg.type = "KeyMsg" /\ msg.key = "r" THEN {"ClearScreen"}
    ELSE IF msg.type = "tickMsg" THEN {"ClearScreen"}
    ELSE IF msg.type = "fetchTickMsg" THEN {"scheduleFetch"}
    ELSE {}

\* an Update whose fetchTickMsg case does not schedule the next fetch
Cmds_FetchNotRescheduled(msg) ==
    IF IsQuit(msg) THEN {"Quit"}
    ELSE IF msg.type = "KeyMsg" /\ msg.key = "r" THEN {"ClearScreen"}
    ELSE IF msg.type = "tickMsg" THEN {"tick", "ClearScreen"}
    ELSE {}

\* an Update that starts a tick timer when the window is resized
Cmds_ResizeStartsTick(msg) ==
    IF IsQuit(msg) THEN {"Quit"}
    ELSE IF msg.type = "KeyMsg" /\ msg.key = "r" THEN {"ClearScreen"}
    ELSE IF msg.type = "tickMsg" THEN {"tick", "ClearScreen"}
    ELSE IF msg.type = "fetchTickMsg" THEN {"scheduleFetch"}
    ELSE IF msg.type = "WindowSizeMsg" THEN {"tick"}
    ELSE {}

\* an Update whose manual refresh also starts a tick timer
Cmds_RefreshRearmsTick(msg) ==
    IF IsQuit(msg) THEN {"Quit"}
    ELSE IF msg.type = "KeyMsg" /\ msg.key = "r" THEN {"tick", "ClearScreen"}
    ELSE IF msg.type = "tickMsg" THEN {"tick", "ClearScreen"}
    ELSE IF msg.type = "fetchTickMsg" THEN {"scheduleFetch"}
    ELSE {}

\* the commands Update returns
Cmds(msg) ==
    IF IsQuit(msg) THEN {"Quit"}
    ELSE IF msg.type = "KeyMsg" /\ msg.key = "r" THEN {"ClearScreen"}
    ELSE IF msg.type = "tickMsg" THEN {"tick", "ClearScreen"}
    ELSE IF msg.type = "fetchTickMsg" THEN {"scheduleFetch"}
    ELSE {}

\* an Update whose tick case also runs GetCommitsAheadBehind itself
Updated_TickCountsUpstream(model, msg, r, cache) ==
    IF IsQuit(msg) THEN model
    ELSE IF msg.type = "tickMsg"
    THEN [model EXCEPT !.branch = Extracted[r].branch,
                       !.changes = Extracted[r].changes,
                       !.branchFiles = Extracted[r].branchFiles[cache],
                       !.ahead = Extracted[r].upstream.ahead,
                       !.behind = Extracted[r].upstream.behind,
                       !.upstreamErr = Extracted[r].upstream.err]
    ELSE IF Extracts(msg)
    THEN [model EXCEPT !.branch = Extracted[r].branch,
                       !.changes = Extracted[r].changes,
                       !.branchFiles = Extracted[r].branchFiles[cache]]
    ELSE IF msg.type = "WindowSizeMsg" THEN Resized(model, msg)
    ELSE IF msg.type = "fetchTickMsg"
    THEN [model EXCEPT !.ahead = msg.ahead, !.behind = msg.behind, !.upstreamErr = msg.err]
    ELSE model

\* the model Update returns
Updated(model, msg, r, cache) ==
    IF IsQuit(msg) THEN model
    ELSE IF Extracts(msg)
    THEN [model EXCEPT !.branch = Extracted[r].branch,
                       !.changes = Extracted[r].changes,
                       !.branchFiles = Extracted[r].branchFiles[cache]]
    ELSE IF msg.type = "WindowSizeMsg" THEN Resized(model, msg)
    ELSE IF msg.type = "fetchTickMsg"
    THEN [model EXCEPT !.ahead = msg.ahead, !.behind = msg.behind, !.upstreamErr = msg.err]
    ELSE model

\* model.Update on the head of the queue; bubbletea then runs the commands
Update ==
    /\ progPc = "running"
    /\ msgs # <<>>
    /\ msgs' = Tail(msgs)
    /\ LET msg == Head(msgs) IN
       /\ m' = Updated(m, msg, repo, cachedDefaultBranch)
       /\ cachedDefaultBranch' = IF Extracts(msg) /\ ~IsQuit(msg)
                                 THEN Extracted[repo].defaultBranch[cachedDefaultBranch]
                                 ELSE cachedDefaultBranch
       /\ lastCmd' = Cmds(msg)
       /\ progPc' = IF "Quit" \in Cmds(msg) THEN "quit" ELSE progPc
       /\ tickTimers' = tickTimers + (IF "tick" \in Cmds(msg) THEN 1 ELSE 0)
       /\ fetchTimers' = fetchTimers + (IF "scheduleFetch" \in Cmds(msg) THEN 1 ELSE 0)
    /\ UNCHANGED <<watchVars, repo, fetchRunning>>

RECURSIVE Digits(_)
\* the decimal digits of n, as "%d" prints them
Digits(n) ==
    IF n < 10 THEN <<DigitChars[n + 1]>>
    ELSE Digits(n \div 10) \o <<DigitChars[(n % 10) + 1]>>

RECURSIVE Text(_)
\* the characters of s as one string
Text(s) == IF s = <<>> THEN "" ELSE Head(s) \o Text(Tail(s))

\* the text View writes after the branch name
ViewUpstream(model) ==
    LET behindPart == IF model.behind > 0
                      THEN <<Text(Digits(model.behind)) \o " behind">> ELSE <<>>
        aheadPart == IF model.ahead > 0
                     THEN <<Text(Digits(model.ahead)) \o " ahead">> ELSE <<>>
        parts == behindPart \o aheadPart
    IN IF model.upstreamErr # "nil" THEN " (no upstream)"
       ELSE IF model.ahead = 0 /\ model.behind = 0 THEN " (up to date)"
       ELSE " (" \o (IF Len(parts) = 2 THEN parts[1] \o ", " \o parts[2]
                      ELSE IF Len(parts) = 1 THEN parts[1] ELSE "") \o ")"

\* model.View: the header it writes, the branch as the model holds it; the
\* body below the header is the viewport's content
View(model) ==
    IF ~model.ready THEN <<"Initializing...">>
    ELSE <<"Branch: ", model.branch, ViewUpstream(model)>>

NextT ==
    \/ RepoChange
    \/ tick
    \/ scheduleFetch
    \/ fetchUpstream
    \/ \E k \in Keys : UserInput(KeyMsg(k))
    \/ \E size \in Sizes : UserInput(WindowSizeMsg(size))
    \/ Update

SpecT == InitT /\ [][NextT]_vars

(***************************************************************************)
(* The watcher generation in a repository that git commands change.  The   *)
(* notification mechanism reports no error here.                           *)
(***************************************************************************)
GitIndex == <<DotGit, <<"i", "n", "d", "e", "x">>>>

\* a git command that writes below .git only (git add, git commit, git
\* checkout of a branch with the same tree): the kernel reports the write iff
\* the directory .git is registered
GitOp ==
    /\ ~closed
    /\ nOps < MaxFsOps
    /\ Len(watcherEvents) < MaxQueue
    /\ <<DotGit>> \in exists
    /\ nOps' = nOps + 1
    /\ repo' \in Repos \ {repo}
    /\ IF Parent(GitIndex) \in watched
       THEN /\ watcherEvents' = Append(watcherEvents, [path |-> GitIndex, op |-> "Write"])
            /\ arrivedLate' = (arrivedLate \/ extractions >= 1)
            /\ UNCHANGED missed
       ELSE /\ missed' = missed \cup {GitIndex}
            /\ UNCHANGED <<watcherEvents, arrivedLate>>
    /\ UNCHANGED <<exists, watched, watcherErrors, closed, runPc, event,
                   cmdWaiting, dropped, forwarded, extractions>>
    /\ UNCHANGED <<msgs, progPc, m, pollVars, lastCmd>>

NextWGit ==
    \/ GitOp
    \/ \E p \in Paths, op \in Ops : FsOp(p, op)
    \/ run_recvEvent
    \/ run_sendEvent
    \/ run_addDir
    \/ run_return
    \/ \E k \in Keys0 : UserInput(KeyMsg(k))
    \/ \E size \in Sizes : UserInput(WindowSizeMsg(size))
    \/ Update0
    \/ main_exit

SpecWGit == InitW /\ [][NextWGit]_vars

FairSpecWGit ==
    /\ SpecWGit
    /\ WF_vars(run_recvEvent) /\ WF_vars(run_sendEvent) /\ WF_vars(run_addDir)
    /\ WF_vars(run_return)
    /\ WF_vars(Update0) /\ WF_vars(main_exit)

(***************************************************************************)
(* git.go on its own: main builds the model with initialModel, which calls *)
(* GetCurrentBranch, GetGitStatus and GetBranchDiffFiles one after the     *)
(* other, in a repository whose commands have any of the outcomes below.   *)
(***************************************************************************)
Dev == <<"d", "e", "v">>
Line(text) == text \o <<"\n">>

\* outcomes of git branch --show-current, git symbolic-ref --short HEAD and
\* git rev-parse --short HEAD
ShowCurrentOutcomes == {Failed, Output(<<"\n">>), Output(Line(Dev))}
SymbolicRefOutcomes == {Failed, Output(<<"\n">>), Output(Line(Main))}
ShortHeadOutcomes == {Failed, Output(Line(<<"h", "2">>))}

BranchInputs ==
    {[RepoDev EXCEPT !.showCurrent = sc, !.symbolicRef = sr, !.shortHead = sh] :
        sc \in ShowCurrentOutcomes, sr \in SymbolicRefOutcomes, sh \in ShortHeadOutcomes}

\* the status characters of git status --porcelain
StatusChars == {" ", "M", "A", "D", "R", "C", "?", "!"}

\* outputs of git status --porcelain -uall: one line for each pair of status
\* characters, and outputs with several lines, short lines and empty lines
StatusOutcomes ==
    {Output(Line(<<staged, unstaged, " ", "f">>)) : staged, unstaged \in StatusChars}
      \cup {Failed,
            Output(<<>>),
            RepoDev.status,
            Output(<<"M", " ", " ", "a">>),
            Output(Line(<<"M", " ", " ">>)),
            Output(Line(<<"x", "y">>) \o Line(<<"M", " ", " ", "a">>)),
            Output(Line(<<"M", " ", " ", "a">>) \o Line(<<>>) \o Line(<<"x">>)
                     \o Line(<<"?", "?", " ", "b">>) \o Line(<<" ", "D", " ">>)
                     \o Line(<<"A", "M", " ", "c", " ", "d">>))}

StatusInputs == {[RepoDev EXCEPT !.status = st] : st \in StatusOutcomes}

H1 == <<"h", "1">>
H2 == <<"h", "2">>

\* outcomes of git rev-parse HEAD, git rev-parse <default branch>,
\* git merge-base and git diff --name-status; origin/HEAD names main, names
\* master (a branch this repository does not have), or is not set
DiffOutcomes ==
    {Failed,
     Output(Line(<<"A", "\t", "n">>) \o Line(<<"M", "\t", "a", "\t", "b">>)),
     Output(Line(<<>>) \o Line(<<"D", "\t", "c">>) \o Line(<<"x", "y">>)
              \o Line(<<>>) \o Line(<<"R", "1", "0", "0", "\t", "o", "\t", "p">>))}

DiffInputs ==
    {[RepoDev EXCEPT !.headRev = hr, !.revs = (Main :> dr), !.mergeBase = (Main :> mb),
                     !.diff = df, !.originHead = oh] :
        hr \in {Failed, Output(Line(H2))},
        dr \in {Failed, Output(Line(H1)), Output(<<" ">> \o Line(H2))},
        mb \in {Failed, Output(Line(H1))},
        df \in DiffOutcomes,
        oh \in {Failed, RepoClean.originHead,
                Output(Line(<<"o", "r", "i", "g", "i", "n", "/">> \o Master))}}

GitInputs == BranchInputs \cup StatusInputs \cup DiffInputs

\* the model before initialModel has filled it
zeroModel ==
    [branch |-> <<>>, changes |-> <<>>, branchFiles |-> <<>>,
     ahead |-> 0, behind |-> 0, upstreamErr |-> "nil",
     ready |-> FALSE, width |-> 0, height |-> 0]

InitGit ==
    /\ repo \in GitInputs
    /\ m = zeroModel
    /\ progPc = "GetCurrentBranch"
    /\ cachedDefaultBranch = <<>>
    /\ msgs = <<>>
    /\ tickTimers = 0
    /\ fetchTimers = 0
    /\ fetchRunning = 0
    /\ lastCmd = {}
    /\ exists = {Root}
    /\ watched = {}
    /\ watcherEvents = <<>>
    /\ watcherErrors = 0
    /\ closed = FALSE
    /\ runPc = "done"
    /\ event = NoEvent
    /\ cmdWaiting = 0
    /\ missed = {}
    /\ dropped = {}
    /\ forwarded = 0
    /\ extractions = 0
    /\ arrivedLate = FALSE
    /\ nOps = 0

\* branch: GetCurrentBranch()
initialModel_branch ==
    /\ progPc = "GetCurrentBranch"
    /\ m' = [m EXCEPT !.branch = GetCurrentBranch(repo)]
    /\ progPc' = "GetGitStatus"
    /\ UNCHANGED <<watchVars, msgs, repo, pollVars, lastCmd>>

\* changes: GetGitStatus()
initialModel_changes ==
    /\ progPc = "GetGitStatus"
    /\ m' = [m EXCEPT !.changes = GetGitStatus(repo)]
    /\ progPc' = "GetBranchDiffFiles"
    /\ UNCHANGED <<watchVars, msgs, repo, pollVars, lastCmd>>

\* branchFiles: GetBranchDiffFiles(), which calls GetDefaultBranch first
initialModel_branchFiles ==
    /\ progPc = "GetBranchDiffFiles"
    /\ cachedDefaultBranch' = GetDefaultBranch(repo, cachedDefaultBranch)
    /\ m' = [m EXCEPT !.branchFiles = GetBranchDiffFiles(repo, cachedDefaultBranch')]
    /\ progPc' = "built"
    /\ UNCHANGED <<watchVars, msgs, repo, tickTimers, fetchTimers, fetchRunning, lastCmd>>

NextGit ==
    \/ initialModel_branch
    \/ initialModel_changes
    \/ initialModel_branchFiles

SpecGit == InitGit /\ [][NextGit]_vars

FairSpecW ==
    /\ SpecW
    /\ WF_vars(run_recvEvent) /\ WF_vars(run_sendEvent) /\ WF_vars(run_addDir)
    /\ WF_vars(run_recvError) /\ WF_vars(run_return)
    /\ WF_vars(Update0) /\ WF_vars(main_exit)

(***************************************************************************)
(* Properties of the watcher generation.                                   *)
(***************************************************************************)
\* the exclusion rule as the specification states it: the subtree below
\* <root>/.git, the directory itself included
UnderExclusionPrefix(p) == Len(p) >= 1 /\ p[1] = DotGit

\* the number of fileChangeMsg among the first n queued messages
QueuedRefreshes(n) ==
    Cardinality({i \in 1..n : msgs[i].type = "fileChangeMsg"})

\* Watcher.run takes an event from fsnotify in this step
TakesEvent == Len(watcherEvents') < Len(watcherEvents)
\* Watcher.run completes the send on w.Events in this step
SendsEvent == runPc = "send" /\ runPc' # "send"

\* C1: when Watcher.run forwards the creation of a directory, that directory
\* is already registered with the watcher.
C1_RegisteredBeforeForward ==
    [][(SendsEvent /\ event.op = "Create" /\ IsDir(event.path)
           /\ event.path \in exists /\ ~closed)
         => event.path \in watched]_vars

\* C2: no change inside a directory outside the exclusion prefix goes
\* unnoticed, so that every event inside a new directory can be delivered.
C2_NoMissedSubtreeEvent ==
    \A p \in missed : UnderExclusionPrefix(p)

\* C3: an event under the exclusion prefix is never sent on Events, its
\* directory is never registered, and discarding it changes nothing else.
C3_ExcludedNeverForwarded ==
    [][/\ SendsEvent => ~UnderExclusionPrefix(event.path)
       /\ \A d \in watched' \ watched : ~UnderExclusionPrefix(d)
       /\ (TakesEvent /\ UnderExclusionPrefix(Head(watcherEvents).path))
            => UNCHANGED <<watched, runPc, event, cmdWaiting, msgs, forwarded>>
      ]_vars

C3_Witness == <<DotGit>> \in dropped

\* C4: Watcher.run discards only events under the exclusion prefix.
C4_OnlyExcludedDropped ==
    \A p \in dropped : UnderExclusionPrefix(p)

\* C5: whenever the forwarding loop has caught up, the watched set is exactly
\* the set of existing directories outside the exclusion prefix.
C5_WatchedIsAllNonExcludedDirs ==
    (~closed /\ runPc = "select" /\ watcherEvents = <<>>)
      => watched = {d \in exists : IsDir(d) /\ ~UnderExclusionPrefix(d)}

\* C6: once the watcher is closed and the forwarding goroutine has returned,
\* no reader is left blocked on Events.
C6_CloseUnblocksReaders ==
    (closed /\ runPc = "done") => cmdWaiting = 0

\* fsnotify holds an event outside the exclusion prefix
PendingForwardable ==
    \E i \in 1..Len(watcherEvents) : ~UnderExclusionPrefix(watcherEvents[i].path)

\* C7: an event outside the exclusion prefix that fsnotify holds is taken by
\* the forwarding loop eventually, also after an error was reported.
C7_DeliveryContinuesAfterError ==
    PendingForwardable ~> (~PendingForwardable \/ closed)

C9_AtMostOneRefreshQueued ==
    /\ cmdWaiting + QueuedRefreshes(Len(msgs)) <= 1
    /\ \A i \in 1..Len(msgs) :
         msgs[i].type = "KeyMsg" => QueuedRefreshes(i) <= 1

C9_Witness ==
    /\ \E i \in 1..Len(msgs) : msgs[i].type = "KeyMsg" /\ QueuedRefreshes(i) = 1
    /\ runPc = "send"
    /\ watcherEvents # <<>>

(***************************************************************************)
(* Properties of the polling generation.                                   *)
(***************************************************************************)
\* Update handles the message at the head of the queue in this step
Handles(msg) == msgs # <<>> /\ Head(msgs) = msg /\ msgs' = Tail(msgs)

\* C10: handling the key 'r' stores the branch, status and branch files of
\* the repository as it is now, requests a screen repaint, and leaves alone
\* the tick and fetch timers, the running fetch, every queued message and
\* ahead, behind and upstreamErr.
C10_ManualRefresh ==
    [][Handles(KeyMsg("r")) =>
         /\ m'.branch = GetCurrentBranch(repo)
         /\ m'.changes = GetGitStatus(repo)
         /\ m'.branchFiles = GetBranchDiffFiles(repo, cachedDefaultBranch')
         /\ "ClearScreen" \in lastCmd'
         /\ UNCHANGED <<tickTimers, fetchTimers, fetchRunning>>
         /\ msgs' = Tail(msgs)
         /\ m'.ahead = m.ahead /\ m'.behind = m.behind
         /\ m'.upstreamErr = m.upstreamErr
      ]_vars

\* 'r' was handled while a fetch was running and a tick pending, and it
\* changed what the model shows
C10_Witness ==
    /\ lastCmd = {"ClearScreen"}
    /\ fetchRunning = 1
    /\ tickTimers = 1
    /\ m.branch = GetCurrentBranch(repo)
    /\ m.branch # GetCurrentBranch(RepoClean)
    /\ m.ahead = 2

(***************************************************************************)
(* Quit.                                                                   *)
(***************************************************************************)
\* C11: once a quit key has been handled (tea.Quit returned, or the process
\* exited after it), Watcher.Close has been called: the watcher is closed
\* and holds no watch.
C11_ClosedBeforeQuit ==
    progPc \in {"quit", "exited"} => closed /\ watched = {}

\* the quit key was handled while Watcher.run was still forwarding an event,
\* and the program has not exited yet
C11_Witness ==
    progPc = "quit" /\ closed /\ runPc = "send" /\ forwarded >= 1

(***************************************************************************)
(* Upstream divergence.                                                    *)
(***************************************************************************)
MaxCount == 11     \* largest ahead and behind count tried

\* what git rev-list --count --left-right prints for the counts a and b
RevListOutput(a, b) == Digits(a) \o <<"\t">> \o Digits(b) \o <<"\n">>

\* GetCommitsAheadBehind returns an error when rev-list fails for want of an
\* upstream, and the two counts with no error when rev-list printed them
AheadBehindResults ==
    /\ GetCommitsAheadBehind([revList |-> Failed]).err # "nil"
    /\ \A a, b \in 0..MaxCount :
         GetCommitsAheadBehind([revList |-> Output(RevListOutput(a, b))])
           = [ahead |-> a, behind |-> b, err |-> "nil"]
    /\ \A r \in Repos :
         /\ ~r.revList.ok => Extracted[r].upstream.err # "nil"
         /\ r.revList.ok => Extracted[r].upstream.err = "nil"

\* the results GetCommitsAheadBehind has in the repository states
FetchResults == {GetCommitsAheadBehind(r) : r \in Repos}

\* C12: GetCommitsAheadBehind returns an error when there is no upstream and
\* the counts with no error when there is one; Update stores the three values
\* of a fetch result as they are; and the header shows "no upstream" exactly
\* when the stored error is not nil, "up to date" only for a stored (0, 0, nil).
C12_UpstreamDistinguishable ==
    /\ [](/\ AheadBehindResults
          /\ m.ready =>
               /\ View(m)[3] = " (no upstream)" <=> m.upstreamErr # "nil"
               /\ View(m)[3] = " (up to date)" <=>
                    (m.upstreamErr = "nil" /\ m.ahead = 0 /\ m.behind = 0)
          /\ \A i \in 1..Len(msgs) :
               msgs[i].type = "fetchTickMsg" =>
                 \E res \in FetchResults : msgs[i] = fetchTickMsg(res))
    /\ [][\A res \in FetchResults :
            Handles(fetchTickMsg(res)) =>
              /\ m'.ahead = res.ahead /\ m'.behind = res.behind
              /\ m'.upstreamErr = res.err
              /\ m'.branch = m.branch /\ m'.changes = m.changes
         ]_vars

\* the result of a fetch in a repository with no upstream has just been
\* stored, the header shows it, and the next fetch is scheduled
C12_Witness ==
    /\ m.ready
    /\ m.upstreamErr = "no upstream"
    /\ View(m)[3] = " (no upstream)"
    /\ lastCmd = {"scheduleFetch"}
    /\ fetchTimers = 1

(***************************************************************************)
(* The display follows the repository.                                     *)
(***************************************************************************)
\* the model of the watcher generation holds the branch and the file
\* statuses of the repository as it is
Shows0 ==
    /\ m.branch = GetCurrentBranch0(repo)
    /\ m.changes = GetGitStatus0(repo)

\* C13: once the repository and the working tree have stopped changing, the
\* model the running program displays comes to hold, and keeps holding, the
\* branch and file statuses of the repository, also after a change that
\* touched only the .git directory.
C13_EventuallyShowsRepository ==
    <>[](progPc = "running" => Shows0)

(***************************************************************************)
(* Properties of git.go.                                                   *)
(***************************************************************************)
\* the output of a command that succeeded and printed something but spaces
Named(outcome) == outcome.ok /\ TrimSpace(outcome.out) # <<>>

\* which of the states of HEAD the three queries of GetCurrentBranch tell
BranchState(r) ==
    IF Named(r.showCurrent) THEN "attached"
    ELSE IF Named(r.symbolicRef) THEN "no commits"
    ELSE IF r.shortHead.ok THEN "detached"
    ELSE "unknown"

\* s ends with suffix
HasSuffix(s, suffix) ==
    Len(s) >= Len(suffix) /\ SubSeq(s, Len(s) - Len(suffix) + 1, Len(s)) = suffix
\* s starts with prefix
HasPrefix(s, prefix) ==
    Len(s) >= Len(prefix) /\ SubSeq(s, 1, Len(prefix)) = prefix

\* C14: for every combination of outcomes of the three queries, the branch
\* initialModel stores is the attached name as it is if there is one, else the
\* symbolic ref with " (no commits)" appended, else "(detached) " and the
\* short hash, else "unknown"; a later query never overrides an earlier one
\* that succeeded, and the attached, no-commits and detached states give
\* results that differ from one another.
C14_BranchFallbackOrder ==
    /\ progPc # "GetCurrentBranch" =>
         /\ Named(repo.showCurrent) => m.branch = TrimSpace(repo.showCurrent.out)
         /\ (~Named(repo.showCurrent) /\ Named(repo.symbolicRef)) =>
               m.branch = TrimSpace(repo.symbolicRef.out) \o NoCommitsSuffix
         /\ (~Named(repo.showCurrent) /\ ~Named(repo.symbolicRef) /\ repo.shortHead.ok) =>
               m.branch = DetachedPrefix \o TrimSpace(repo.shortHead.out)
         /\ (~Named(repo.showCurrent) /\ ~Named(repo.symbolicRef) /\ ~repo.shortHead.ok) =>
               m.branch = Unknown
         /\ BranchState(repo) = "no commits" <=> HasSuffix(m.branch, NoCommitsSuffix)
         /\ BranchState(repo) = "detached" <=> HasPrefix(m.branch, DetachedPrefix)
    /\ \A r1, r2 \in BranchInputs :
         (BranchState(r1) # BranchState(r2)
            /\ {BranchState(r1), BranchState(r2)} \subseteq {"attached", "no commits", "detached"})
           => GetCurrentBranch(r1) # GetCurrentBranch(r2)

\* branch --show-current printed nothing, symbolic-ref failed and HEAD
\* resolved: the detached marker was stored
C14_Witness ==
    /\ progPc = "built"
    /\ repo.showCurrent = Output(<<"\n">>)
    /\ ~repo.symbolicRef.ok
    /\ m.branch = DetachedPrefix \o <<"h", "2">>

\* the fragments statusLabel writes for the staged and the unstaged column
StagedWords ==
    {"modified (staged)", "added (staged)", "deleted (staged)",
     "renamed (staged)", "copied (staged)"}
UnstagedWords == {"modified", "deleted"}

\* the number of fragments a label is made of
FragmentCount(label) ==
    IF label \in StagedWords \cup UnstagedWords THEN 1
    ELSE IF \E a \in StagedWords, b \in UnstagedWords : label = a \o ", " \o b THEN 2
    ELSE 0

\* 1 for a status character other than blank
NonBlank(ch) == IF ch = " " THEN 0 ELSE 1

\* the pair is neither the untracked nor the ignored marker
Ordinary(c) ==
    /\ ~(c.Staged = "?" /\ c.Unstaged = "?")
    /\ ~(c.Staged = "!" /\ c.Unstaged = "!")

\* C15 as stated: the label is "untracked" iff both characters are '?',
\* "ignored" iff both are '!', and otherwise every non-blank character
\* contributes exactly one fragment, "changed" standing for no fragment.
C15_EveryCharacterContributes ==
    \A k \in 1..Len(m.changes) :
      LET c == m.changes[k] IN
        /\ c.Label = "untracked" <=> (c.Staged = "?" /\ c.Unstaged = "?")
        /\ c.Label = "ignored" <=> (c.Staged = "!" /\ c.Unstaged = "!")
        /\ Ordinary(c) =>
             /\ FragmentCount(c.Label) = NonBlank(c.Staged) + NonBlank(c.Unstaged)
             /\ c.Label = "changed" <=> FragmentCount(c.Label) = 0

\* the fragment of a staged character, of an unstaged character
StagedFragment(ch) ==
    IF ch = "M" THEN <<"modified (staged)">>
    ELSE IF ch = "A" THEN <<"added (staged)">>
    ELSE IF ch = "D" THEN <<"deleted (staged)">>
    ELSE IF ch = "R" THEN <<"renamed (staged)">>
    ELSE IF ch = "C" THEN <<"copied (staged)">>
    ELSE <<>>
UnstagedFragment(ch) ==
    IF ch = "M" THEN <<"modified">>
    ELSE IF ch = "D" THEN <<"deleted">>
    ELSE <<>>

\* C15 amended: the label is "untracked" iff both characters are '?',
\* "ignored" iff both are '!'; otherwise a staged M, A, D, R or C contributes
\* one fragment and an unstaged M or D contributes one fragment, staged first
\* and joined by ", "; every other character (blank, an unstaged A, R or C, a
\* single '?' or '!') contributes none, and the label is "changed" iff there
\* is no fragment.  Staged A with unstaged M gives "added (staged), modified".
C15_LabelFromBothColumns ==
    \A k \in 1..Len(m.changes) :
      LET c == m.changes[k]
          parts == StagedFragment(c.Staged) \o UnstagedFragment(c.Unstaged)
      IN
        /\ c.Label = "untracked" <=> (c.Staged = "?" /\ c.Unstaged = "?")
        /\ c.Label = "ignored" <=> (c.Staged = "!" /\ c.Unstaged = "!")
        /\ Ordinary(c) =>
             /\ FragmentCount(c.Label) = Len(parts)
             /\ Len(parts) = 0 => c.Label = "changed"
             /\ Len(parts) = 1 => c.Label = parts[1]
             /\ Len(parts) = 2 => c.Label = parts[1] \o ", " \o parts[2]
             /\ c.Label = "changed" <=> Len(parts) = 0
        /\ (c.Staged = "A" /\ c.Unstaged = "M") => c.Label = "added (staged), modified"

\* a file whose only status character is an unstaged A is labelled "changed"
C15_Witness ==
    /\ progPc = "built"
    /\ Len(m.changes) = 1
    /\ m.changes[1].Staged = " " /\ m.changes[1].Unstaged = "A"
    /\ m.changes[1].Label = "changed"

\* the positions of the lines of at least four characters
WideLines(lines) == {i \in 1..Len(lines) : Len(lines[i]) >= 4}

\* the position of the k-th line of at least four characters
KthWide(lines, k) ==
    CHOOSE i \in WideLines(lines) :
      Cardinality({j \in WideLines(lines) : j <= i}) = k

ATxt == <<"a", ".", "t", "x", "t">>
BTxt == <<"b", ".", "t", "x", "t">>
CTxt == <<"c", ".", "t", "x", "t">>

\* C16: the changes initialModel stores hold exactly one record for each line
\* of git status of at least four characters, in the order of the lines, with
\* Staged the first character, Unstaged the second and File the text from
\* the fourth character on; shorter lines give no record, a failed git
\* status gives none; the lines "M  a.txt", "?? b.txt", " D c.txt" give the
\* labels "modified (staged)", "untracked", "deleted" in that order.
C16_OneRecordPerWideLine ==
    (progPc \in {"GetBranchDiffFiles", "built"}) =>
      LET lines == Split(repo.status.out, "\n") IN
        /\ ~repo.status.ok => m.changes = <<>>
        /\ repo.status.ok =>
             /\ Len(m.changes) = Cardinality(WideLines(lines))
             /\ \A k \in 1..Len(m.changes) :
                  LET line == lines[KthWide(lines, k)] IN
                    /\ m.changes[k].Staged = line[1]
                    /\ m.changes[k].Unstaged = line[2]
                    /\ <<line[1], line[2], line[3]>> \o m.changes[k].File = line
                    /\ m.changes[k].Label = statusLabel(line[1], line[2])
        /\ repo.status = Output(Line(<<"M", " ", " ">> \o ATxt) \o Line(<<"?", "?", " ">> \o BTxt)
                                  \o Line(<<" ", "D", " ">> \o CTxt)) =>
             /\ [k \in 1..Len(m.changes) |-> m.changes[k].Label]
                  = <<"modified (staged)", "untracked", "deleted">>
             /\ [k \in 1..Len(m.changes) |-> m.changes[k].File] = <<ATxt, BTxt, CTxt>>

\* an output with short and empty lines between three wide lines gave three
\* records, the last of them for a file name with a space
C16_Witness ==
    /\ progPc = "built"
    /\ Len(Split(repo.status.out, "\n")) = 7
    /\ Len(m.changes) = 3
    /\ m.changes[2].Label = "untracked"
    /\ m.changes[3].File = <<"c", " ", "d">>

\* the positions of the well-formed lines of git diff --name-status: those
\* that hold a tab
TabLines(lines) == {i \in 1..Len(lines) : lines[i] # <<>> /\ IndexOf(lines[i], "\t") > 0}

\* the position of the k-th well-formed line
KthTab(lines, k) ==
    CHOOSE i \in TabLines(lines) :
      Cardinality({j \in TabLines(lines) : j <= i}) = k

\* the commands GetBranchDiffFiles runs before the diff all succeed, and
\* HEAD is another commit than the default branch
Diverged(r, defaultBranch) ==
    /\ r.headRev.ok
    /\ RevParse(r, defaultBranch).ok
    /\ TrimSpace(r.headRev.out) # TrimSpace(RevParse(r, defaultBranch).out)
    /\ MergeBase(r, defaultBranch).ok
    /\ r.diff.ok

\* C17: the branch files initialModel stores are empty when HEAD is the
\* commit of the default branch and when rev-parse HEAD, rev-parse of the
\* default branch, merge-base or diff fails; otherwise they are the
\* name-status entries of the diff, one for each line holding a tab, in order,
\* the status before the first tab and the file after it.
C17_BranchDiffFilesOrEmpty ==
    progPc = "built" =>
      LET lines == Split(TrimSpace(repo.diff.out), "\n") IN
        /\ ~Diverged(repo, cachedDefaultBranch) => m.branchFiles = <<>>
        /\ Diverged(repo, cachedDefaultBranch) =>
             /\ Len(m.branchFiles) = Cardinality(TabLines(lines))
             /\ \A k \in 1..Len(m.branchFiles) :
                  LET line == lines[KthTab(lines, k)] IN
                    /\ m.branchFiles[k].Status \o <<"\t">> \o m.branchFiles[k].File = line
                    /\ IndexOf(m.branchFiles[k].Status, "\t") = 0

\* HEAD and the default branch are different commits and the diff held an
\* empty line and a line with no tab: two entries were stored
C17_Witness ==
    /\ progPc = "built"
    /\ cachedDefaultBranch = Main
    /\ Len(Split(TrimSpace(repo.diff.out), "\n")) = 4
    /\ Len(m.branchFiles) = 2
    /\ m.branchFiles[2] = [Status |-> <<"R", "1", "0", "0">>, File |-> <<"o", "\t", "p">>]

(***************************************************************************)
(* The trigger sources of the polling generation.                          *)
(***************************************************************************)
\* the number of queued messages of a type
QueuedOf(type) == Cardinality({i \in 1..Len(msgs) : msgs[i].type = type})

\* what is outstanding of the tick source: its timer or its message
TickOutstanding == tickTimers + QueuedOf("tickMsg")
\* what is outstanding of the fetch source: its timer, the running
\* fetchUpstream (the extraction in flight) or its message
FetchOutstanding == fetchTimers + fetchRunning + QueuedOf("fetchTickMsg")

\* Update handles a message of this type in this step
HandlesType(type) == msgs # <<>> /\ Head(msgs).type = type /\ msgs' = Tail(msgs)

\* C18: a tick timer is started only by the step that handles a tickMsg, a
\* fetch timer only by the step that handles a fetchTickMsg, and a
\* fetchUpstream only by the expiry of a fetch timer; so the tick source and
\* the fetch source each have at most one timer, running command or queued
\* message outstanding, whatever keys and resizes come in between.  (The
\* filesystem wait of the watcher generation is the subject of C9.)
C18_OneOutstandingPerSource ==
    /\ [](TickOutstanding <= 1 /\ FetchOutstanding <= 1 /\ fetchRunning <= 1)
    /\ [][/\ tickTimers' > tickTimers => HandlesType("tickMsg")
          /\ fetchTimers' > fetchTimers => HandlesType("fetchTickMsg")
          /\ fetchRunning' > fetchRunning => fetchTimers' < fetchTimers
          /\ QueuedOf("tickMsg")' > QueuedOf("tickMsg") => tickTimers' < tickTimers
          /\ QueuedOf("fetchTickMsg")' > QueuedOf("fetchTickMsg") => fetchRunning' < fetchRunning
         ]_vars

\* the second fetch is running, started by the timer the fetchTickMsg handler
\* set, while a tickMsg and a key press wait in the queue
C18_Witness ==
    /\ fetchRunning = 1
    /\ lastCmd = {"scheduleFetch"}
    /\ QueuedOf("tickMsg") = 1
    /\ QueuedOf("KeyMsg") = 1

(***************************************************************************)
(* The model between two Updates.                                          *)
(***************************************************************************)
\* the upstream fields of the model, in the shape of a fetch result
StoredUpstream == [ahead |-> m.ahead, behind |-> m.behind, err |-> m.upstreamErr]

\* all data fields of the model are those one extraction in the repository
\* state r gives
FromOneCycle(r) ==
    /\ m.branch = GetCurrentBranch(r)
    /\ m.changes = GetGitStatus(r)
    /\ \E c \in Caches : m.branchFiles = GetBranchDiffFiles(r, GetDefaultBranch(r, c))
    /\ StoredUpstream = GetCommitsAheadBehind(r)

\* C19: once a fetch result is stored (the upstream fields are not the zero
\* value of initialModel), branch, changes, branchFiles, ahead, behind and
\* upstreamErr of the model that View renders all come from one refresh
\* cycle, hence from one state of the repository: never a branch name of a
\* newer extraction next to the ahead and behind counts of an older one.
C19_FieldsFromOneCycle ==
    StoredUpstream # [ahead |-> 0, behind |-> 0, err |-> "nil"]
      => \E r \in Repos : FromOneCycle(r)

\* C20: a running fetchUpstream never keeps Update from handling the message
\* at the head of the queue; a tickMsg or a key 'r' handled while it runs
\* stores the branch and statuses of the repository as it is and leaves the
\* fetch running and the upstream fields alone; the fetch ends by queueing
\* its fetchTickMsg, changing nothing of the model; and the upstream fields
\* change only in the step that handles that message.
C20_FetchOutsideTheLoop ==
    /\ []((fetchRunning > 0 /\ progPc = "running" /\ msgs # <<>>) => ENABLED Update)
    /\ [][/\ (fetchRunning > 0 /\ (HandlesType("tickMsg") \/ Handles(KeyMsg("r")))) =>
               /\ m'.branch = GetCurrentBranch(repo)
               /\ m'.changes = GetGitStatus(repo)
               /\ fetchRunning' = fetchRunning
               /\ StoredUpstream' = StoredUpstream
          /\ fetchRunning' < fetchRunning =>
               /\ m' = m
               /\ msgs' = Append(msgs, fetchTickMsg(GetCommitsAheadBehind(repo)))
          /\ StoredUpstream' # StoredUpstream => HandlesType("fetchTickMsg")
         ]_vars

\* a tickMsg was handled while the first fetch was still running: the model
\* holds the branch of the repository as it is now, and not yet its counts
C20_Witness ==
    /\ fetchRunning = 1
    /\ fetchTimers = 0
    /\ lastCmd = {"tick", "ClearScreen"}
    /\ repo = RepoDev
    /\ m.branch = GetCurrentBranch(repo)
    /\ StoredUpstream = [ahead |-> 0, behind |-> 0, err |-> "nil"]
    /\ QueuedOf("KeyMsg") = 1

(***************************************************************************)
(* Failing extractions and the periodic refresh.                           *)
(***************************************************************************)
\* C21: a tickMsg handled while git status fails leaves changes empty, one
\* handled while the branch diff cannot be computed leaves branchFiles empty,
\* and a fetch result that carries an error is stored with zero counts; in
\* each case the program keeps running and the handler starts the next
\* timer of its source, and every handled tickMsg stores what the extraction
\* calls return in the repository as it is then.
C21_FailureKeepsRefreshing ==
    [][/\ HandlesType("tickMsg") =>
            /\ ~repo.status.ok => m'.changes = <<>>
            /\ ~Diverged(repo, cachedDefaultBranch') => m'.branchFiles = <<>>
            /\ m'.changes = Extracted[repo].changes
            /\ m'.branch = Extracted[repo].branch
            /\ progPc' = "running"
            /\ "tick" \in lastCmd'
            /\ tickTimers' = tickTimers + 1
       /\ (HandlesType("fetchTickMsg") /\ Head(msgs).err # "nil") =>
            /\ StoredUpstream' = [ahead |-> 0, behind |-> 0, err |-> Head(msgs).err]
            /\ progPc' = "running"
            /\ fetchTimers' = fetchTimers + 1
      ]_vars

\* a tickMsg was handled while git status failed: changes are empty, the
\* next tick timer is pending and the program runs
C21_Witness ==
    /\ lastCmd = {"tick", "ClearScreen"}
    /\ ~repo.status.ok
    /\ m.changes = <<>>
    /\ m.branch = GetCurrentBranch(repo)
    /\ tickTimers = 1
    /\ progPc = "running"

(***************************************************************************)
(* The cached default branch.                                              *)
(***************************************************************************)
\* with a name in the cache GetDefaultBranch returns that name in every
\* repository state, whatever origin/HEAD and refs/heads/main say there
CachedNameReturned ==
    \A r \in GitInputs \cup Repos : \A c \in Caches \ {<<>>} : GetDefaultBranch(r, c) = c

\* with an empty cache GetDefaultBranch resolves a name in every repository state
NameResolved ==
    \A r \in GitInputs \cup Repos : GetDefaultBranch(r, <<>>) \in Caches \ {<<>>}

\* C22: once GetDefaultBranch has resolved a name, the cache holds that name
\* for the rest of the run: no step changes it, whatever state the repository
\* changes to, and every later refresh computes the branch diff against it.
C22_DefaultBranchResolvedOnce ==
    /\ [](CachedNameReturned /\ NameResolved /\ cachedDefaultBranch # <<>>)
    /\ [][/\ cachedDefaultBranch' = cachedDefaultBranch
          /\ HandlesType("tickMsg") =>
                m'.branchFiles = GetBranchDiffFiles(repo, cachedDefaultBranch)
         ]_vars

\* the name is cached, the repository has changed between states with and
\* without origin/HEAD (the stored fetch result is from a state without an
\* upstream), and a tick was handled in the state that has origin/HEAD
C22_Witness ==
    /\ cachedDefaultBranch = Main
    /\ repo = RepoClean
    /\ lastCmd = {"tick", "ClearScreen"}
    /\ m.branch = Main
    /\ m.upstreamErr # "nil"

(***************************************************************************)
(* The header before the first fetch result.                               *)
(***************************************************************************)
\* the polling program in a repository that nothing changes while it runs
NextTStill ==
    \/ tick
    \/ scheduleFetch
    \/ fetchUpstream
    \/ \E k \in Keys : UserInput(KeyMsg(k))
    \/ \E size \in Sizes : UserInput(WindowSizeMsg(size))
    \/ Update

SpecTStill == InitT /\ [][NextTStill]_vars

\* C23: the header shows " (up to date)" only when an ahead/behind
\* computation has completed and returned (0, 0) with no error.  In a
\* repository that does not change, every computation that completes returns
\* GetCommitsAheadBehind of that repository, so the header may show
\* " (up to date)" only if that result is (0, 0, nil).
C23_UpToDateOnlyAfterFetch ==
    (m.ready /\ View(m)[3] = " (up to date)") =>
        Extracted[repo].upstream = [ahead |-> 0, behind |-> 0, err |-> "nil"]

(***************************************************************************)
(* The two refresh sources stay alive.                                     *)
(***************************************************************************)
\* C24: while the program runs, the tick source has a timer pending or its
\* tickMsg queued, and the upstream-fetch source has a fetch running, a
\* timer pending or its fetchTickMsg queued, after any sequence of key
\* presses, resizes, ticks and fetch results.
C24_RefreshNeverStops ==
    progPc = "running" => (TickOutstanding >= 1 /\ FetchOutstanding >= 1)

\* a fetch result has been handled and the next fetch is on its timer, a
\* resize has been handled, 'r' was the last message handled, and the tick
\* source has its tickMsg waiting in the queue
C24_Witness ==
    /\ progPc = "running"
    /\ m.ready
    /\ lastCmd = {"ClearScreen"}
    /\ fetchTimers = 1
    /\ QueuedOf("tickMsg") = 1
    /\ TickOutstanding = 1
    /\ FetchOutstanding = 1

(***************************************************************************)
(* The forwarding goroutine after Close.                                   *)
(***************************************************************************)
\* C25: after Watcher.Close the goroutine of Watcher.run returns, in every
\* interleaving, also when Close finds it in its send on Events or on Errors.
C25_RunReturnsAfterClose ==
    closed ~> runPc = "done"

====
